---- MODULE Spec2Model ----
(***************************************************************************)
(* Model of the two-party TCP chat relay: src/chat_server.py (run_server,  *)
(* its stdin_loop thread, LineBuffer) and src/chat_client.py (run_client,  *)
(* its stdin_loop thread, LineBuffer).                                     *)
(*                                                                         *)
(* One behaviour is one run of one process.  Init fixes the role, the      *)
(* framing mode, the platform and the console mode found at start; Start   *)
(* is the set-up code before the event loop; Select is one sel.select()    *)
(* wake-up, which yields a batch of ready keys; every other loop action    *)
(* is the handler of one key of the batch, taken in any order.  Outcomes   *)
(* of system calls (recv, sendall, os.read, tcgetattr, ...) are inputs     *)
(* chosen by the environment.  A SIGINT is taken between handlers or       *)
(* inside select.                                                          *)
(***************************************************************************)
EXTENDS Integers, Sequences, FiniteSets, TLC

(* ---------------------------- bounds ---------------------------------- *)
\* connections the listening socket hands out in one run
MaxConn == 2
\* data events in one run: bytes received from the peer plus units (bytes or
\* lines) typed on the console
MaxData == 3
\* bytes fed to a LineBuffer in one run of FeedSpec
MaxFed == 4

(* ------------------------ program constants --------------------------- *)
\* the frame delimiter searched by LineBuffer.feed
LF == 10
\* the interrupt key as a byte
CtrlC == 3
\* U+FFFD, what decode(errors="replace") puts for an undecodable byte
Replacement == 65533

(* ------------------------- sequence helpers --------------------------- *)
RECURSIVE Concat(_)
Concat(ss) == IF ss = <<>> THEN <<>> ELSE Head(ss) \o Concat(Tail(ss))

\* the non-empty sequences over S of length at most n
SeqsUpTo(S, n) == UNION {[1..k -> S] : k \in 1..n}

\* index of the first occurrence of b in s, 0 when absent (bytearray.index)
RECURSIVE IndexFrom(_, _, _)
IndexFrom(s, b, i) ==
    IF i > Len(s) THEN 0
    ELSE IF s[i] = b THEN i
    ELSE IndexFrom(s, b, i + 1)

Index(s, b) == IndexFrom(s, b, 1)

\* index of the last occurrence of b in s, 0 when absent
RECURSIVE LastIndexFrom(_, _, _)
LastIndexFrom(s, b, i) ==
    IF i = 0 THEN 0
    ELSE IF s[i] = b THEN i
    ELSE LastIndexFrom(s, b, i - 1)

LastIndex(s, b) == LastIndexFrom(s, b, Len(s))

(* --------------------------- text codec ------------------------------- *)
\* bytes.decode("utf-8", errors="replace") on the bytes of the model (one- and
\* two-byte forms; the model's byte sets hold no three- or four-byte lead)
RECURSIVE Utf8Decode(_)
Utf8Decode(bs) ==
    IF bs = <<>> THEN <<>>
    ELSE IF Head(bs) < 128 THEN <<Head(bs)>> \o Utf8Decode(Tail(bs))
    ELSE IF /\ Head(bs) >= 194
            /\ Head(bs) <= 223
            /\ Len(bs) >= 2
            /\ bs[2] >= 128
            /\ bs[2] <= 191
         THEN <<(Head(bs) - 192) * 64 + (bs[2] - 128)>>
                  \o Utf8Decode(Tail(Tail(bs)))
    ELSE <<Replacement>> \o Utf8Decode(Tail(bs))

\* str.encode("utf-8") on code points below 65536 (what writing the text to
\* a UTF-8 display produces)
RECURSIVE Utf8Encode(_)
Utf8Encode(cs) ==
    IF cs = <<>> THEN <<>>
    ELSE IF Head(cs) < 128 THEN <<Head(cs)>> \o Utf8Encode(Tail(cs))
    ELSE IF Head(cs) < 2048
         THEN <<192 + (Head(cs) \div 64), 128 + (Head(cs) % 64)>>
                  \o Utf8Encode(Tail(cs))
    ELSE <<224 + (Head(cs) \div 4096), 128 + ((Head(cs) \div 64) % 64),
           128 + (Head(cs) % 64)>> \o Utf8Encode(Tail(cs))

(* ---------------------------- LineBuffer ------------------------------ *)
\* the decoded line appended for one cut: line_bytes.decode("utf-8", "replace")
DecodeLine(line_bytes) == Utf8Decode(line_bytes)

\* FeedLoop cutting the line before the delimiter (line_bytes = buffer[:idx])
RECURSIVE FeedLoop_DropsDelimiter(_, _)
FeedLoop_DropsDelimiter(buffer, lines) ==
    LET idx == Index(buffer, LF)
    IN IF idx = 0
       THEN [buffer |-> buffer, lines |-> lines]
       ELSE FeedLoop_DropsDelimiter(SubSeq(buffer, idx + 1, Len(buffer)),
                Append(lines, DecodeLine(SubSeq(buffer, 1, idx - 1))))

\* FeedLoop as a single test instead of a loop: only the first line of the
\* buffer is cut, later linefeeds stay in the buffer
FeedLoop_OneLine(buffer, lines) ==
    LET idx == Index(buffer, LF)
    IN IF idx = 0
       THEN [buffer |-> buffer, lines |-> lines]
       ELSE [buffer |-> SubSeq(buffer, idx + 1, Len(buffer)),
             lines |-> Append(lines, DecodeLine(SubSeq(buffer, 1, idx)))]

\* the while-loop of LineBuffer.feed on the extended buffer: cut at each 0x0A,
\* delete the cut from the buffer, append its decoding to lines
RECURSIVE FeedLoop(_, _)
FeedLoop(buffer, lines) ==
    LET idx == Index(buffer, LF)
    IN IF idx = 0
       THEN [buffer |-> buffer, lines |-> lines]
       ELSE FeedLoop(SubSeq(buffer, idx + 1, Len(buffer)),
                     Append(lines, DecodeLine(SubSeq(buffer, 1, idx))))

\* LineBuffer.feed(data): the new buffer and the returned list of lines
Feed(buffer, data) == FeedLoop(buffer \o data, <<>>)

(* ------------------------------ state -------------------------------- *)
VARIABLES
    role,                  \* "server" (run_server) or "client" (run_client)
    mode,                  \* "line" or "char"; the client always types per character
    platform,              \* "unix" or "windows" (platform.system())
    pc,                    \* "start", "loop", "returned", "ended", "killed", "feed"
    why,                   \* how the loop was left
    ready,                 \* the keys of the current sel.select() batch not yet handled
    registered,            \* the selector's map: a set of keys [data, sock]
    session,               \* client_sock_ref[0] (server) / sock (client); 0 is None
    nextConn,              \* connections accepted so far
    sockOpen,              \* connection sockets created and not closed
    listenOpen,            \* server_sock is open
    busySent,              \* connections the busy notice was written to
    rejected,              \* connections accepted on the busy branch
    everRegistered,        \* connections ever registered with the selector
    termMode,              \* the console mode now
    old_termios_settings,  \* the captured console mode, "None" before capture
    rawEntered,            \* tty.setraw() succeeded
    atexitRestore,         \* restore_termios is registered with atexit
    sigHandler,            \* SIGINT disposition: "default" or "sysexit"
    tpc,                   \* stdin_loop thread: "off", "getch", "send", "dead"
    tsock,                 \* the thread's local current_client_sock
    tchar,                 \* the thread's local char
    recv_buf,              \* the client's LineBuffer._buffer (FeedSpec: the buffer fed)
    received,              \* bytes recv() has returned, in order
    frames,                \* lines LineBuffer.feed has returned, in order
    display,               \* what was written to stdout: [src, ch] in order
    sent,                  \* sendall calls on connections: [by, conn, data, ok]
    typed,                 \* units read from the console, in order
    last                   \* the event the last step handled

cfgVars  == <<role, mode, platform>>
loopVars == <<pc, why, ready>>
sockVars == <<registered, session, nextConn, sockOpen, listenOpen, busySent,
              rejected, everRegistered>>
termVars == <<termMode, old_termios_settings, rawEntered, atexitRestore,
              sigHandler>>
thrVars  == <<tpc, tsock, tchar>>
ioVars   == <<recv_buf, received, frames, display, sent, typed>>
vars     == <<cfgVars, loopVars, sockVars, termVars, thrVars, ioVars, last>>

(* --------------------------- input sets ------------------------------- *)
\* bytes the peer may send: the linefeed, the letter "a" and 0xFF, which is
\* valid nowhere in UTF-8; the server writes bytes to stdout as they are, so
\* only the client, which decodes them, is given the undecodable one
RecvBytes == IF role = "client" THEN {LF, 97, 255} ELSE {LF, 97}
\* bytes the console may deliver in per-character reading: the interrupt key
\* and the letter "a"
TypedBytes == {CtrlC, 97}
\* lines sys.stdin.readline() may return (always linefeed-terminated)
TypedLines == {<<97, LF>>}
\* bytes fed to the LineBuffer in FeedSpec: the linefeed, the letter "a", the
\* two bytes 0xC3 0xA9 of a valid two-byte sequence (U+00E9), and 0xFF
FeedBytes == {LF, 97, 195, 169, 255}
\* console modes the process may find at start (the capture-and-restore code
\* is the same in both files; the second start mode is given to the client)
StartModes == IF role = "client" THEN {"cooked", "cbreak"} ELSE {"cooked"}

Key(d, s) == [data |-> d, sock |-> s]
AcceptKey == Key("accept", 0)
StdinKey  == Key("stdin", 0)

\* the running configurations: the server takes a mode, the client has none
\* (it reads the console one byte at a time)
Configs ==
    {[role |-> "server", mode |-> m, platform |-> p] :
         m \in {"line", "char"}, p \in {"unix", "windows"}}
    \cup {[role |-> "client", mode |-> "char", platform |-> p] :
         p \in {"unix", "windows"}}

\* the configurations whose set-up reads and changes the console mode; in
\* the others no code looks at it, and one start mode stands for all
TouchesConsole == platform = "unix" /\ mode = "char"

\* the process at entry of run_server / run_client
Init ==
    /\ \E c \in Configs :
         /\ role = c.role
         /\ mode = c.mode
         /\ platform = c.platform
    /\ pc = "start"
    /\ why = "none"
    /\ ready = {}
    /\ registered = {}
    /\ session = 0
    /\ nextConn = 0
    /\ sockOpen = {}
    /\ listenOpen = FALSE
    /\ busySent = {}
    /\ rejected = {}
    /\ everRegistered = {}
    /\ termMode \in (IF TouchesConsole THEN StartModes ELSE {"cooked"})
    /\ old_termios_settings = "None"
    /\ rawEntered = FALSE
    /\ atexitRestore = FALSE
    /\ sigHandler = "default"
    /\ tpc = "off"
    /\ tsock = 0
    /\ tchar = 0
    /\ recv_buf = <<>>
    /\ received = <<>>
    /\ frames = <<>>
    /\ display = <<>>
    /\ sent = <<>>
    /\ typed = <<>>
    /\ last = "none"

(* ----------------------- console set-up (unix) ------------------------ *)
\* the try block that captures the console mode and enters raw mode;
\* out is the outcome of its calls: "ok", "tcgetattr_fails", "setraw_fails".
\* installSig: the client also installs signal_handler for SIGINT.
EnterRaw(out, installSig) ==
    /\ old_termios_settings' =
           IF out = "tcgetattr_fails" THEN "None" ELSE termMode
    /\ termMode' = IF out = "ok" THEN "raw" ELSE termMode
    /\ rawEntered' = (out = "ok")
    /\ atexitRestore' = (out = "ok")
    /\ sigHandler' = IF out = "ok" /\ installSig THEN "sysexit" ELSE "default"

RawOutcomes == {"ok", "tcgetattr_fails", "setraw_fails"}

\* run_server up to the event loop with the raw-mode set-up outside any
\* exception handler: a failed tcgetattr or setraw ends the function
ServerStart_RawFailureAborts ==
    /\ role = "server"
    /\ pc = "start"
    /\ listenOpen' = TRUE
    /\ IF mode = "char" /\ platform = "unix"
       THEN \E out \in RawOutcomes :
              /\ EnterRaw(out, FALSE)
              /\ registered' = IF out = "ok" THEN {AcceptKey, StdinKey}
                                             ELSE {AcceptKey}
              /\ pc' = IF out = "ok" THEN "loop" ELSE "returned"
              /\ why' = IF out = "ok" THEN why ELSE "error"
              /\ tpc' = "off"
       ELSE IF mode = "char"
       THEN /\ UNCHANGED <<termVars, why>>
            /\ registered' = {AcceptKey}
            /\ tpc' = "getch"
            /\ pc' = "loop"
       ELSE /\ UNCHANGED <<termVars, why>>
            /\ registered' = {AcceptKey, StdinKey}
            /\ tpc' = "off"
            /\ pc' = "loop"
    /\ last' = "start"
    /\ UNCHANGED <<cfgVars, ready, session, nextConn, sockOpen, busySent,
                   rejected, everRegistered, tsock, tchar, ioVars>>

\* run_server up to the event loop: listening socket registered, then the
\* console / thread set-up chosen by mode and platform
ServerStart ==
    /\ role = "server"
    /\ pc = "start"
    /\ listenOpen' = TRUE
    /\ IF mode = "char" /\ platform = "unix"
       THEN /\ \E out \in RawOutcomes : EnterRaw(out, FALSE)
            /\ registered' = {AcceptKey, StdinKey}
            /\ tpc' = "off"
       ELSE IF mode = "char"
       THEN /\ UNCHANGED termVars
            /\ registered' = {AcceptKey}
            /\ tpc' = "getch"
       ELSE /\ UNCHANGED termVars
            /\ registered' = {AcceptKey, StdinKey}
            /\ tpc' = "off"
    /\ pc' = "loop"
    /\ last' = "start"
    /\ UNCHANGED <<cfgVars, why, ready, session, nextConn, sockOpen, busySent,
                   rejected, everRegistered, tsock, tchar, ioVars>>

\* run_client up to the event loop with the thread started on every
\* platform, next to the registration of console input
ClientStart_ThreadEverywhere ==
    /\ role = "client"
    /\ pc = "start"
    /\ session' = 1
    /\ sockOpen' = {1}
    /\ everRegistered' = {1}
    /\ IF platform = "unix"
       THEN /\ \E out \in RawOutcomes : EnterRaw(out, TRUE)
            /\ registered' = {Key("server", 1), StdinKey}
            /\ tpc' = "getch"
       ELSE /\ UNCHANGED termVars
            /\ registered' = {Key("server", 1)}
            /\ tpc' = "getch"
    /\ pc' = "loop"
    /\ last' = "start"
    /\ UNCHANGED <<cfgVars, why, ready, nextConn, listenOpen, busySent,
                   rejected, tsock, tchar, ioVars>>

\* run_client up to the event loop: connected socket registered, then the
\* console / thread set-up chosen by platform
ClientStart ==
    /\ role = "client"
    /\ pc = "start"
    /\ session' = 1
    /\ sockOpen' = {1}
    /\ everRegistered' = {1}
    /\ IF platform = "unix"
       THEN /\ \E out \in RawOutcomes : EnterRaw(out, TRUE)
            /\ registered' = {Key("server", 1), StdinKey}
            /\ tpc' = "off"
       ELSE /\ UNCHANGED termVars
            /\ registered' = {Key("server", 1)}
            /\ tpc' = "getch"
    /\ pc' = "loop"
    /\ last' = "start"
    /\ UNCHANGED <<cfgVars, why, ready, nextConn, listenOpen, busySent,
                   rejected, tsock, tchar, ioVars>>

(* ------------------------------ teardown ------------------------------ *)
\* sel.unregister(fileobj) raises when fileobj is not in the selector's map
UnregisterRaises(k) == k \notin registered

\* ServerFinally with the session branch but without the listener's teardown
ServerFinally_LeavesListener(w, open) ==
    /\ registered' = registered \ {Key("client", session)}
    /\ sockOpen' = open \ {session}
    /\ listenOpen' = listenOpen
    /\ pc' = "returned"
    /\ why' = w
    /\ ready' = {}

\* the finally block of run_server, entered with exit reason w:
\*   try: unregister and close the active connection (the close is skipped
\*        when the unregister raises); then unregister server_sock, errors
\*        ignored; then server_sock.close()
\* open: the connection sockets open when the block is entered
ServerFinally(w, open) ==
    LET cur == session
        k == Key("client", cur)
        closeCur == cur # 0 /\ ~UnregisterRaises(k)
    IN /\ registered' = (registered \ (IF cur # 0 THEN {k} ELSE {})) \ {AcceptKey}
       /\ sockOpen' = IF closeCur THEN open \ {cur} ELSE open
       /\ listenOpen' = FALSE
       /\ pc' = "returned"
       /\ why' = w
       /\ ready' = {}

\* the finally block of run_client: unregister sock, errors ignored; sock.close()
ClientFinally(w) ==
    /\ registered' = registered \ {Key("server", session)}
    /\ sockOpen' = sockOpen \ {session}
    /\ pc' = "returned"
    /\ why' = w
    /\ ready' = {}

(* ------------------------------- select ------------------------------- *)
\* keys that can be reported ready: a registered key; the listening socket
\* only while the run still has a connection to hand out
Readable == {k \in registered : k.data = "accept" => nextConn < MaxConn}

\* sel.select(timeout=None) returns a non-empty batch of ready keys
Select ==
    /\ pc = "loop"
    /\ ready = {}
    /\ ~(platform = "windows" /\ StdinKey \in registered)
    /\ \E S \in SUBSET Readable :
         /\ S # {}
         /\ ready' = S
    /\ last' = "select"
    /\ UNCHANGED <<cfgVars, pc, why, sockVars, termVars, thrVars, ioVars>>

\* on Windows select() accepts sockets only: with sys.stdin in the map (the
\* server in line mode) it raises OSError, which leaves the loop through finally
SelectFails ==
    /\ pc = "loop"
    /\ ready = {}
    /\ role = "server"
    /\ platform = "windows"
    /\ StdinKey \in registered
    /\ ServerFinally("error", sockOpen)
    /\ last' = "select_error"
    /\ UNCHANGED <<cfgVars, session, nextConn, busySent, rejected,
                   everRegistered, termVars, thrVars, ioVars>>

(* ------------------------ server: accept key ------------------------- *)
\* the for-loop over the batch is at a key with data d (the batch is handled in
\* an order the code does not control: any key still in it may be the next)
AtKey(d) == pc = "loop" /\ \E k \in ready : k.data = d

\* the batch once the key with data d has been handled
Rest(d) == ready \ {CHOOSE k \in ready : k.data = d}

\* what a write of bytes bs to stdout adds to the display
Shown(src, bs) == [i \in 1..Len(bs) |-> [src |-> src, ch |-> bs[i]]]

\* key "accept", no Session: the connection becomes the Session and is registered
ServerAccept ==
    /\ role = "server"
    /\ AtKey("accept")
    /\ session = 0
    /\ LET conn == nextConn + 1
       IN /\ nextConn' = conn
          /\ session' = conn
          /\ sockOpen' = sockOpen \cup {conn}
          /\ registered' = registered \cup {Key("client", conn)}
          /\ everRegistered' = everRegistered \cup {conn}
    /\ ready' = Rest("accept")
    /\ last' = "accept"
    /\ UNCHANGED <<cfgVars, pc, why, listenOpen, busySent, rejected, termVars,
                   thrVars, ioVars>>

\* key "accept", a Session is active, the busy notice is written: the
\* connection is closed and the loop goes on to the next key
ServerBusy ==
    /\ role = "server"
    /\ AtKey("accept")
    /\ session # 0
    /\ LET conn == nextConn + 1
       IN /\ nextConn' = conn
          /\ rejected' = rejected \cup {conn}
          /\ busySent' = busySent \cup {conn}
    /\ ready' = Rest("accept")
    /\ last' = "busy"
    /\ UNCHANGED <<cfgVars, pc, why, registered, session, sockOpen, listenOpen,
                   everRegistered, termVars, thrVars, ioVars>>

\* key "accept", a Session is active, conn.sendall raises: conn.close() is
\* skipped and the exception leaves the loop through finally
ServerBusyFails ==
    /\ role = "server"
    /\ AtKey("accept")
    /\ session # 0
    /\ LET conn == nextConn + 1
       IN /\ nextConn' = conn
          /\ rejected' = rejected \cup {conn}
          /\ ServerFinally("error", sockOpen \cup {conn})
    /\ last' = "busy_error"
    /\ UNCHANGED <<cfgVars, session, busySent, everRegistered, termVars,
                   thrVars, ioVars>>

(* ------------------------ server: client key ------------------------- *)
\* data events the run can still take
Budget == MaxData - Len(received) - Len(typed)

\* chunks one recv(4096) may return within the run's budget
Chunks == SeqsUpTo(RecvBytes, Budget)

\* key "client", recv returns data: the bytes are written to stdout as they are
ServerRecvData ==
    /\ role = "server"
    /\ AtKey("client")
    /\ session # 0
    /\ \E data \in Chunks :
         /\ received' = received \o data
         /\ display' = display \o Shown("peer", data)
    /\ ready' = Rest("client")
    /\ last' = "recv_data"
    /\ UNCHANGED <<cfgVars, pc, why, sockVars, termVars, thrVars, recv_buf,
                   frames, sent, typed>>

\* ServerRecvClosed without the reset of the reference (the socket is
\* unregistered and closed, client_sock_ref[0] still names it)
ServerRecvClosed_KeepsRef ==
    /\ role = "server"
    /\ AtKey("client")
    /\ session # 0
    /\ registered' = registered \ {Key("client", session)}
    /\ sockOpen' = sockOpen \ {session}
    /\ ready' = Rest("client")
    /\ last' \in {"recv_eof", "recv_reset"}
    /\ UNCHANGED <<cfgVars, pc, why, session, nextConn, listenOpen, busySent,
                   rejected, everRegistered, termVars, thrVars, ioVars>>

\* ServerRecvClosed without sel.unregister: the socket is closed and the
\* reference reset while the selector's map still holds the socket
ServerRecvClosed_StaysRegistered ==
    /\ role = "server"
    /\ AtKey("client")
    /\ session # 0
    /\ sockOpen' = sockOpen \ {session}
    /\ session' = 0
    /\ ready' = Rest("client")
    /\ last' \in {"recv_eof", "recv_reset"}
    /\ UNCHANGED <<cfgVars, pc, why, registered, nextConn, listenOpen,
                   busySent, rejected, everRegistered, termVars, thrVars,
                   ioVars>>

\* key "client", recv returns b"" or raises ConnectionResetError: the
\* connection is unregistered and closed and the reference reset
ServerRecvClosed ==
    /\ role = "server"
    /\ AtKey("client")
    /\ session # 0
    /\ registered' = registered \ {Key("client", session)}
    /\ sockOpen' = sockOpen \ {session}
    /\ session' = 0
    /\ ready' = Rest("client")
    /\ last' \in {"recv_eof", "recv_reset"}
    /\ UNCHANGED <<cfgVars, pc, why, nextConn, listenOpen, busySent, rejected,
                   everRegistered, termVars, thrVars, ioVars>>

\* key "client", recv raises an OSError other than ConnectionResetError (or
\* the assertion on the reference fails): the exception leaves the loop
ServerRecvError ==
    /\ role = "server"
    /\ AtKey("client")
    /\ ServerFinally(IF session = 0 THEN "assert" ELSE "error", sockOpen)
    /\ last' = "recv_error"
    /\ UNCHANGED <<cfgVars, session, nextConn, busySent, rejected,
                   everRegistered, termVars, thrVars, ioVars>>

(* ------------------------ server: stdin key -------------------------- *)
\* bytes a per-character console read can deliver: the interrupt key arrives
\* as a byte only when the console is raw (otherwise the terminal turns it
\* into SIGINT) or is read by getch on Windows
ConsoleBytes ==
    IF platform = "windows" \/ termMode = "raw"
    THEN TypedBytes
    ELSE TypedBytes \ {CtrlC}

\* the units one stdin event reads: one byte (os.read(fd, 1)) in char mode,
\* one encoded line (readline) in line mode
Units ==
    IF Budget <= 0 THEN {}
    ELSE IF mode = "char" THEN {<<b>> : b \in ConsoleBytes}
    ELSE TypedLines

SendRec(by, conn, data, ok) == [by |-> by, conn |-> conn, data |-> data, ok |-> ok]

\* key "stdin", the read returns nothing (end of input): continue
ServerStdinEOF ==
    /\ role = "server"
    /\ AtKey("stdin")
    /\ ready' = Rest("stdin")
    /\ last' = "stdin_eof"
    /\ UNCHANGED <<cfgVars, pc, why, sockVars, termVars, thrVars, ioVars>>

\* key "stdin", a unit is read, a Session is active, sendall succeeds
ServerStdinSend ==
    /\ role = "server"
    /\ AtKey("stdin")
    /\ session # 0
    /\ \E u \in Units :
         /\ typed' = Append(typed, u)
         /\ sent' = Append(sent, SendRec("loop", session, u, TRUE))
    /\ ready' = Rest("stdin")
    /\ last' = "stdin_send"
    /\ UNCHANGED <<cfgVars, pc, why, sockVars, termVars, thrVars, recv_buf,
                   received, frames, display>>

\* key "stdin", a unit is read, a Session is active, sendall raises: the
\* except clause prints a notice and the loop goes on
ServerStdinSendFails ==
    /\ role = "server"
    /\ AtKey("stdin")
    /\ session # 0
    /\ \E u \in Units :
         /\ typed' = Append(typed, u)
         /\ sent' = Append(sent, SendRec("loop", session, u, FALSE))
    /\ ready' = Rest("stdin")
    /\ last' = "stdin_send_failed"
    /\ UNCHANGED <<cfgVars, pc, why, sockVars, termVars, thrVars, recv_buf,
                   received, frames, display>>

\* key "stdin", a unit is read, no Session: char mode echoes the byte to
\* stdout, line mode prints a notice
ServerStdinNoClient ==
    /\ role = "server"
    /\ AtKey("stdin")
    /\ session = 0
    /\ \E u \in Units :
         /\ typed' = Append(typed, u)
         /\ display' = IF mode = "char" THEN display \o Shown("local", u)
                       ELSE display
    /\ ready' = Rest("stdin")
    /\ last' = "stdin_no_client"
    /\ UNCHANGED <<cfgVars, pc, why, sockVars, termVars, thrVars, recv_buf,
                   received, frames, sent>>

(* --------------------- server: stdin_loop thread --------------------- *)
\* the daemon thread runs until the process ends
ThreadAlive == pc \in {"loop", "returned"}

\* getch returns nothing: continue
ServerThreadGetchEmpty ==
    /\ role = "server"
    /\ ThreadAlive
    /\ tpc = "getch"
    /\ last' = "stdin_eof"
    /\ UNCHANGED <<cfgVars, loopVars, sockVars, termVars, thrVars, ioVars>>

\* getch returns a byte and the thread reads client_sock_list[0]; with no
\* Session the byte is dropped, otherwise the send is the thread's next step
ServerThreadGetch ==
    /\ role = "server"
    /\ ThreadAlive
    /\ tpc = "getch"
    /\ \E u \in Units :
         /\ typed' = Append(typed, u)
         /\ tchar' = u[1]
    /\ tsock' = session
    /\ tpc' = IF session = 0 THEN "getch" ELSE "send"
    /\ last' = "thread_getch"
    /\ UNCHANGED <<cfgVars, loopVars, sockVars, termVars, recv_buf, received,
                   frames, display, sent>>

\* current_client_sock.sendall(char) succeeds (the socket must still be open)
ServerThreadSend ==
    /\ role = "server"
    /\ ThreadAlive
    /\ tpc = "send"
    /\ tsock \in sockOpen
    /\ sent' = Append(sent, SendRec("thread", tsock, <<tchar>>, TRUE))
    /\ tpc' = "getch"
    /\ last' = "thread_send"
    /\ UNCHANGED <<cfgVars, loopVars, sockVars, termVars, tsock, tchar,
                   recv_buf, received, frames, display, typed>>

\* sendall raises (a transport failure, or the loop closed the socket in the
\* meantime): the except clause prints a notice and the thread returns
ServerThreadSendFails ==
    /\ role = "server"
    /\ ThreadAlive
    /\ tpc = "send"
    /\ sent' = Append(sent, SendRec("thread", tsock, <<tchar>>, FALSE))
    /\ tpc' = "dead"
    /\ last' = "thread_send_failed"
    /\ UNCHANGED <<cfgVars, loopVars, sockVars, termVars, tsock, tchar,
                   recv_buf, received, frames, display, typed>>

(* ------------------------ client: server key ------------------------- *)
\* key "server" with the held-back partial line written to stdout as well:
\* a partial line is shown when it arrives and again when it is completed
ClientRecvData_ShowsPartial ==
    /\ role = "client"
    /\ AtKey("server")
    /\ \E data \in Chunks :
         LET r == Feed(recv_buf, data)
         IN /\ received' = received \o data
            /\ recv_buf' = r.buffer
            /\ frames' = frames \o r.lines
            /\ display' = display \o Shown("peer", Concat(r.lines))
                                  \o Shown("peer", Utf8Decode(r.buffer))
    /\ ready' = Rest("server")
    /\ last' = "recv_data"
    /\ UNCHANGED <<cfgVars, pc, why, sockVars, termVars, thrVars, sent, typed>>

\* key "server", recv returns data: the data goes through recv_buf.feed and
\* each returned line is written to stdout
ClientRecvData ==
    /\ role = "client"
    /\ AtKey("server")
    /\ \E data \in Chunks :
         LET r == Feed(recv_buf, data)
         IN /\ received' = received \o data
            /\ recv_buf' = r.buffer
            /\ frames' = frames \o r.lines
            /\ display' = display \o Shown("peer", Concat(r.lines))
    /\ ready' = Rest("server")
    /\ last' = "recv_data"
    /\ UNCHANGED <<cfgVars, pc, why, sockVars, termVars, thrVars, sent, typed>>

\* key "server", recv returns b"" or raises ConnectionResetError: return
ClientRecvClosed ==
    /\ role = "client"
    /\ AtKey("server")
    /\ ClientFinally("peer_closed")
    /\ last' \in {"recv_eof", "recv_reset"}
    /\ UNCHANGED <<cfgVars, session, nextConn, listenOpen, busySent, rejected,
                   everRegistered, termVars, thrVars, ioVars>>

\* key "server", recv raises another OSError: the exception leaves the loop
ClientRecvError ==
    /\ role = "client"
    /\ AtKey("server")
    /\ ClientFinally("error")
    /\ last' = "recv_error"
    /\ UNCHANGED <<cfgVars, session, nextConn, listenOpen, busySent, rejected,
                   everRegistered, termVars, thrVars, ioVars>>

(* ------------------------ client: stdin key -------------------------- *)
\* ClientStdinEOF treating end of input as the end of the run (return)
ClientStdinEOF_Returns ==
    /\ role = "client"
    /\ AtKey("stdin")
    /\ ClientFinally("eof")
    /\ last' = "stdin_eof"
    /\ UNCHANGED <<cfgVars, session, nextConn, listenOpen, busySent, rejected,
                   everRegistered, termVars, thrVars, ioVars>>

\* key "stdin", os.read returns nothing: continue
ClientStdinEOF ==
    /\ role = "client"
    /\ AtKey("stdin")
    /\ ready' = Rest("stdin")
    /\ last' = "stdin_eof"
    /\ UNCHANGED <<cfgVars, pc, why, sockVars, termVars, thrVars, ioVars>>

\* key "stdin", a byte is read and sock.sendall succeeds
ClientStdinSend ==
    /\ role = "client"
    /\ AtKey("stdin")
    /\ \E u \in Units :
         /\ typed' = Append(typed, u)
         /\ sent' = Append(sent, SendRec("loop", session, u, TRUE))
    /\ ready' = Rest("stdin")
    /\ last' = "stdin_send"
    /\ UNCHANGED <<cfgVars, pc, why, sockVars, termVars, thrVars, recv_buf,
                   received, frames, display>>

\* key "stdin", a byte is read and sock.sendall raises: notice, return
ClientStdinSendFails ==
    /\ role = "client"
    /\ AtKey("stdin")
    /\ \E u \in Units :
         /\ typed' = Append(typed, u)
         /\ sent' = Append(sent, SendRec("loop", session, u, FALSE))
    /\ ClientFinally("send_failed")
    /\ last' = "stdin_send_failed"
    /\ UNCHANGED <<cfgVars, session, nextConn, listenOpen, busySent, rejected,
                   everRegistered, termVars, thrVars, recv_buf, received,
                   frames, display>>

(* --------------------- client: stdin_loop thread --------------------- *)
\* getch returns nothing: continue
ClientThreadGetchEmpty ==
    /\ role = "client"
    /\ ThreadAlive
    /\ tpc = "getch"
    /\ last' = "stdin_eof"
    /\ UNCHANGED <<cfgVars, loopVars, sockVars, termVars, thrVars, ioVars>>

\* getch returns 0x03: os.kill(os.getpid(), signal.SIGINT).  The thread only
\* runs on Windows, where os.kill with a signal other than CTRL_C_EVENT and
\* CTRL_BREAK_EVENT ends the process through TerminateProcess: no finally
\* block and no atexit handler runs
ClientThreadCtrlC ==
    /\ role = "client"
    /\ ThreadAlive
    /\ tpc = "getch"
    /\ <<CtrlC>> \in Units
    /\ typed' = Append(typed, <<CtrlC>>)
    /\ pc' = "killed"
    /\ why' = "terminated"
    /\ ready' = {}
    /\ tpc' = "dead"
    /\ last' = "thread_ctrl_c"
    /\ UNCHANGED <<cfgVars, sockVars, termVars, tsock, tchar, recv_buf,
                   received, frames, display, sent>>

\* getch returns another byte: it is written to stdout; the send is the
\* thread's next step
ClientThreadGetch ==
    /\ role = "client"
    /\ ThreadAlive
    /\ tpc = "getch"
    /\ \E u \in Units \ {<<CtrlC>>} :
         /\ typed' = Append(typed, u)
         /\ tchar' = u[1]
         /\ display' = display \o Shown("local", u)
    /\ tsock' = session
    /\ tpc' = "send"
    /\ last' = "thread_getch"
    /\ UNCHANGED <<cfgVars, loopVars, sockVars, termVars, recv_buf, received,
                   frames, sent>>

\* sock.sendall(char) succeeds (the socket must still be open)
ClientThreadSend ==
    /\ role = "client"
    /\ ThreadAlive
    /\ tpc = "send"
    /\ tsock \in sockOpen
    /\ sent' = Append(sent, SendRec("thread", tsock, <<tchar>>, TRUE))
    /\ tpc' = "getch"
    /\ last' = "thread_send"
    /\ UNCHANGED <<cfgVars, loopVars, sockVars, termVars, tsock, tchar,
                   recv_buf, received, frames, display, typed>>

\* sock.sendall raises: the except clause prints a notice and the thread
\* returns; the main loop is not told
ClientThreadSendFails ==
    /\ role = "client"
    /\ ThreadAlive
    /\ tpc = "send"
    /\ sent' = Append(sent, SendRec("thread", tsock, <<tchar>>, FALSE))
    /\ tpc' = "dead"
    /\ last' = "thread_send_failed"
    /\ UNCHANGED <<cfgVars, loopVars, sockVars, termVars, tsock, tchar,
                   recv_buf, received, frames, display, typed>>

(* ------------------------ interrupt and exit ------------------------- *)
\* SIGINT while the server is in its loop: KeyboardInterrupt, caught by the
\* except clause, then finally
ServerInterrupt ==
    /\ role = "server"
    /\ pc = "loop"
    /\ ServerFinally("interrupt", sockOpen)
    /\ last' = "interrupt"
    /\ UNCHANGED <<cfgVars, session, nextConn, busySent, rejected,
                   everRegistered, termVars, thrVars, ioVars>>

\* SIGINT while the client is in its loop: signal_handler calls sys.exit(0)
\* when installed, otherwise KeyboardInterrupt is raised and caught; finally
\* runs in both cases
ClientInterrupt ==
    /\ role = "client"
    /\ pc = "loop"
    /\ ClientFinally(IF sigHandler = "sysexit" THEN "sysexit" ELSE "interrupt")
    /\ last' = "interrupt"
    /\ UNCHANGED <<cfgVars, session, nextConn, listenOpen, busySent, rejected,
                   everRegistered, termVars, thrVars, ioVars>>

\* restore_termios setting the default console mode, not the captured one
restore_termios_ToCooked ==
    termMode' = IF old_termios_settings # "None" THEN "cooked" ELSE termMode

\* restore_termios as registered with atexit: tcsetattr with the captured
\* settings when there are any
restore_termios ==
    termMode' = IF old_termios_settings # "None"
                THEN old_termios_settings
                ELSE termMode

\* the interpreter ends after run_server / run_client has returned or let an
\* exception through: the atexit handlers run and the daemon thread dies
ProcessExit ==
    /\ pc = "returned"
    /\ pc' = "ended"
    /\ IF atexitRestore THEN restore_termios ELSE termMode' = termMode
    /\ tpc' = IF tpc = "off" THEN "off" ELSE "dead"
    /\ last' = "exit"
    /\ UNCHANGED <<cfgVars, why, ready, sockVars, old_termios_settings,
                   rawEntered, atexitRestore, sigHandler, tsock, tchar, ioVars>>

(* --------------------------- specification --------------------------- *)
ServerNext ==
    \/ ServerStart
    \/ SelectFails
    \/ ServerAccept
    \/ ServerBusy
    \/ ServerBusyFails
    \/ ServerRecvData
    \/ ServerRecvClosed
    \/ ServerRecvError
    \/ ServerStdinEOF
    \/ ServerStdinSend
    \/ ServerStdinSendFails
    \/ ServerStdinNoClient
    \/ ServerThreadGetchEmpty
    \/ ServerThreadGetch
    \/ ServerThreadSend
    \/ ServerThreadSendFails
    \/ ServerInterrupt

ClientNext ==
    \/ ClientStart
    \/ ClientRecvData
    \/ ClientRecvClosed
    \/ ClientRecvError
    \/ ClientStdinEOF
    \/ ClientStdinSend
    \/ ClientStdinSendFails
    \/ ClientThreadGetchEmpty
    \/ ClientThreadCtrlC
    \/ ClientThreadGetch
    \/ ClientThreadSend
    \/ ClientThreadSendFails
    \/ ClientInterrupt

Next == ServerNext \/ ClientNext \/ Select \/ ProcessExit

Spec == Init /\ [][Next]_vars

(* ----------------------- LineBuffer on its own ----------------------- *)
\* a fresh LineBuffer, about to be fed
FeedInit ==
    /\ role = "client"
    /\ mode = "char"
    /\ platform = "unix"
    /\ pc = "feed"
    /\ why = "none"
    /\ ready = {}
    /\ registered = {}
    /\ session = 0
    /\ nextConn = 0
    /\ sockOpen = {}
    /\ listenOpen = FALSE
    /\ busySent = {}
    /\ rejected = {}
    /\ everRegistered = {}
    /\ termMode = "cooked"
    /\ old_termios_settings = "None"
    /\ rawEntered = FALSE
    /\ atexitRestore = FALSE
    /\ sigHandler = "default"
    /\ tpc = "off"
    /\ tsock = 0
    /\ tchar = 0
    /\ recv_buf = <<>>
    /\ received = <<>>
    /\ frames = <<>>
    /\ display = <<>>
    /\ sent = <<>>
    /\ typed = <<>>
    /\ last = "none"

\* one call recv_buf.feed(data), data any chunk of the bytes still to feed
FeedStep ==
    /\ pc = "feed"
    /\ \E data \in SeqsUpTo(FeedBytes, MaxFed - Len(received)) :
         /\ LET r == Feed(recv_buf, data)
            IN /\ received' = received \o data
               /\ recv_buf' = r.buffer
               /\ frames' = frames \o r.lines
    /\ last' = "feed"
    /\ UNCHANGED <<cfgVars, loopVars, sockVars, termVars, thrVars, display,
                   sent, typed>>

FeedSpec == FeedInit /\ [][FeedStep]_vars

(* ------------------------------ claims ------------------------------- *)
\* the bytes written to stdout on behalf of the peer, in order
PeerShown ==
    LET idx == {i \in 1..Len(display) : display[i].src = "peer"}
        f[i \in 0..Len(display)] ==
            IF i = 0 THEN <<>>
            ELSE IF i \in idx THEN Append(f[i - 1], display[i].ch)
            ELSE f[i - 1]
    IN f[Len(display)]

\* the client sockets in the selector's map
ClientKeys == {k \in registered : k.data = "client"}

\* the server is back in Listening: loop running, no Session, listener watched
Listening ==
    /\ pc = "loop"
    /\ session = 0
    /\ ClientKeys = {}
    /\ listenOpen
    /\ AcceptKey \in registered

\* C1: on the server at most one Session is active, and every connection
\* accepted while a Session is active has been sent the busy notice, is
\* closed, was never registered with the selector and is not the Session.
C1_SecondConnectionRejected ==
    role = "server" =>
        /\ Cardinality(ClientKeys) <= 1
        /\ \A c \in rejected :
             /\ c \in busySent
             /\ c \notin sockOpen
             /\ c \notin everRegistered
             /\ Key("client", c) \notin registered
             /\ session # c

\* C2: a zero-length read on the active connection tears the Session down.
\* Server: the connection read is unregistered and closed, the reference is
\* empty, the loop keeps running with the listener registered, and the next
\* connection accepted with no Session becomes the Session.  Client: the
\* loop returns with the socket closed, and a returned process only ends.
C2_ZeroReadTearsDown ==
    [][/\ (role = "server" /\ last' = "recv_eof") =>
             /\ session # 0
             /\ session \notin sockOpen'
             /\ Key("client", session) \notin registered'
             /\ Listening'
       /\ (role = "server" /\ session = 0 /\ nextConn' = nextConn + 1) =>
             /\ session' = nextConn'
             /\ session' \in sockOpen'
             /\ Key("client", session') \in registered'
             /\ pc' = "loop"
       /\ (role = "client" /\ last' = "recv_eof") =>
             /\ pc' = "returned"
             /\ session \notin sockOpen'
       /\ (role = "client" /\ pc = "returned") =>
             pc' \in {"returned", "ended", "killed"}]_vars

\* C2 witness: the server has just torn its first Session down on a zero read
C2_Witness ==
    /\ role = "server"
    /\ last = "recv_eof"
    /\ nextConn = 1
    /\ session = 0
    /\ pc = "loop"

\* the decoded text of all lines emitted so far
FramesText == Concat(frames)

\* the fed bytes up to and including the last linefeed, and the bytes after it
FedThroughLastLF == SubSeq(received, 1, LastIndex(received, LF))
FedAfterLastLF == SubSeq(received, LastIndex(received, LF) + 1, Len(received))

\* C3 as stated: the emitted frames, as bytes, are the fed bytes up to and
\* including the last linefeed, and the buffer holds the bytes after it.
C3_FramesAreFedBytes ==
    /\ Utf8Encode(FramesText) = FedThroughLastLF
    /\ recv_buf = FedAfterLastLF

\* C3 amended: the emitted frames are the UTF-8 decoding, undecodable bytes
\* replaced by U+FFFD, of the fed bytes up to and including the last linefeed
\* (and are those bytes themselves when nothing was replaced), and the buffer
\* holds the bytes after that linefeed.
C3_FramesDecodeFedBytes ==
    /\ FramesText = Utf8Decode(FedThroughLastLF)
    /\ (\A i \in 1..Len(FramesText) : FramesText[i] # Replacement)
           => Utf8Encode(FramesText) = FedThroughLastLF
    /\ recv_buf = FedAfterLastLF

\* C3 witness: two lines emitted over the feeds, one with a replaced byte,
\* and a partial line left in the buffer
C3_Witness ==
    /\ pc = "feed"
    /\ Len(frames) = 2
    /\ \E i \in 1..Len(FramesText) : FramesText[i] = Replacement
    /\ recv_buf # <<>>

\* C4: in Char mode every byte received is displayed by the receive event
\* that delivers it, on the server and on the client: the displayed peer
\* bytes are the received bytes and none waits in a LineBuffer.
C4_CharModeShowsEveryByte ==
    mode = "char" =>
        /\ PeerShown = received
        /\ recv_buf = <<>>

\* C5: a failed send ends the Session in both roles and both strategies: the
\* connection of every failed sendall is closed, and the server has dropped
\* it from the reference and the selector, and the client has left its loop.
C5_FailedSendEndsSession ==
    \A i \in 1..Len(sent) :
        ~sent[i].ok =>
            /\ sent[i].conn \notin sockOpen
            /\ role = "server" =>
                 /\ session # sent[i].conn
                 /\ Key("client", sent[i].conn) \notin registered
            /\ role = "client" => pc # "loop"

\* C6: on the server a fault of the active connection (recv reset, any other
\* recv failure, a failed send) leaves the process running: after the event
\* the loop runs, the faulted connection is closed and is not the Session,
\* and the listener is registered.
C6_ServerFaultNotFatal ==
    role = "server" =>
        /\ last \in {"recv_reset", "recv_error"} => Listening
        /\ last \in {"stdin_send_failed", "thread_send_failed"} =>
             /\ pc = "loop"
             /\ listenOpen
             /\ AcceptKey \in registered
             /\ sent[Len(sent)].conn \notin sockOpen
             /\ session # sent[Len(sent)].conn

\* C7: end of input on stdin changes nothing of the Session or the run, for
\* server and client, multiplexed or thread: the step that handles an empty
\* console read leaves the connection, the selector's map, the listener, the
\* loop position, the thread and everything sent and shown as they were.
C7_StdinEOFChangesNothing ==
    [][last' = "stdin_eof" =>
           UNCHANGED <<pc, why, session, registered, sockOpen, listenOpen,
                       tpc, sent, display, typed>>]_vars

\* C7 witness: an empty console read was handled with a Session active, and
\* the loop runs on with the connection open and registered
C7_Witness ==
    /\ last = "stdin_eof"
    /\ pc = "loop"
    /\ session # 0
    /\ session \in sockOpen
    /\ \E k \in registered : k.sock = session

C9_InterruptKeyShutsDown ==
    /\ \A i \in 1..Len(sent) : sent[i].data # <<CtrlC>>
    /\ (\E i \in 1..Len(typed) : typed[i] = <<CtrlC>>) =>
           (pc \in {"returned", "ended", "killed"} \/ tpc = "send")

\* C10: if the console was switched to raw mode, then at process end the
\* console mode is the mode captured before the switch.
C10_ConsoleRestored ==
    (rawEntered /\ pc = "ended") => termMode = old_termios_settings

\* C10 witness: a client that found the console in cbreak mode and entered
\* raw mode has ended after a failed send
C10_Witness ==
    /\ rawEntered
    /\ pc = "ended"
    /\ why = "send_failed"
    /\ old_termios_settings = "cbreak"

\* C11: a failure while capturing the console settings or while switching to
\* raw mode does not keep the relay from starting. The start step of a
\* configuration that attempts the switch, when the switch fails, leaves the
\* console mode as it was, registers console input next to the socket
\* (the listening socket on the server, the connection on the client) and
\* enters the event loop; while that loop runs console input stays
\* registered and the console is not in raw mode.
C11_RawFailureStillStarts ==
    [][ /\ (pc = "start" /\ TouchesConsole /\ ~rawEntered') =>
              /\ pc' = "loop"
              /\ termMode' = termMode
              /\ StdinKey \in registered'
              /\ role = "server" => (AcceptKey \in registered' /\ listenOpen')
              /\ role = "client" => Key("server", 1) \in registered'
        /\ (TouchesConsole /\ ~rawEntered' /\ pc' = "loop") =>
              /\ StdinKey \in registered'
              /\ termMode' # "raw" ]_vars

\* C11 witness: a server whose capture of the console settings failed has
\* accepted a Session and shown bytes from it, the console still cooked
C11_Witness ==
    /\ role = "server"
    /\ TouchesConsole
    /\ pc = "loop"
    /\ ~rawEntered
    /\ old_termios_settings = "None"
    /\ termMode = "cooked"
    /\ session # 0
    /\ PeerShown # <<>>

\* s is a prefix of t
IsPrefix(s, t) == Len(s) <= Len(t) /\ s = SubSeq(t, 1, Len(s))

\* s can be obtained from t by deleting elements, the order kept
RECURSIVE IsSubseq(_, _)
IsSubseq(s, t) ==
    IF s = <<>> THEN TRUE
    ELSE IF t = <<>> THEN FALSE
    ELSE IF Head(s) = Head(t) THEN IsSubseq(Tail(s), Tail(t))
    ELSE IsSubseq(s, Tail(t))

\* the bytes that reached the display from the peer: the server writes the
\* received bytes themselves, the client writes text, which the console
\* receives encoded
PeerShownBytes == IF role = "client" THEN Utf8Encode(PeerShown) ELSE PeerShown

\* the data of the sends made so far, in the order they were made
SentUnits == [i \in 1..Len(sent) |-> sent[i].data]

\* C12 as stated: the bytes displayed from the peer are a prefix of the bytes
\* received from the peer, and the units handed to send are in typed order.
C12_DisplayIsPrefixOfReceived ==
    /\ IsPrefix(PeerShownBytes, received)
    /\ IsSubseq(SentUnits, typed)

\* C12 amended: what is displayed from the peer is, on the server, a prefix of
\* the received bytes and, on the client, the UTF-8 decoding (undecodable
\* bytes replaced by U+FFFD) of a prefix of the received bytes; and the units
\* handed to send are, in order, units that were typed.
C12_DisplayDecodesPrefixOfReceived ==
    /\ role = "server" => IsPrefix(PeerShown, received)
    /\ role = "client" =>
          \E n \in 0..Len(received) :
              PeerShown = Utf8Decode(SubSeq(received, 1, n))
    /\ IsSubseq(SentUnits, typed)

\* C12 witness: a client has displayed a line in which an undecodable byte
\* was replaced, and has handed a typed byte to send
C12_Witness ==
    /\ role = "client"
    /\ \E i \in 1..Len(PeerShown) : PeerShown[i] = Replacement
    /\ Len(sent) >= 1
    /\ sent[1].data = typed[1]

\* the bytes that reached the display as local echo
LocalShown ==
    LET f[i \in 0..Len(display)] ==
            IF i = 0 THEN <<>>
            ELSE IF display[i].src = "local" THEN Append(f[i - 1], display[i].ch)
            ELSE f[i - 1]
    IN f[Len(display)]

\* the typed bytes that were transmitted to the peer, in order
TransmittedBytes ==
    LET f[i \in 0..Len(sent)] ==
            IF i = 0 THEN <<>>
            ELSE IF sent[i].ok THEN f[i - 1] \o sent[i].data
            ELSE f[i - 1]
    IN f[Len(sent)]

\* C13: in char mode with the console in raw mode, every typed byte that was
\* transmitted to the peer has also been echoed to the local display.
C13_TransmittedBytesEchoed ==
    (mode = "char" /\ rawEntered) => IsSubseq(TransmittedBytes, LocalShown)

\* the run uses the background thread to read console input
ThreadStrategy == tpc # "off"

\* C14: when console input is read by the background thread, every send on a
\* Session's connection was made by the thread: console input is not in the
\* selector's map, so the loop never reaches a send.
C14_ThreadIsOnlyWriter ==
    ThreadStrategy =>
        /\ StdinKey \notin registered
        /\ \A k \in ready : k.data # "stdin"
        /\ \A i \in 1..Len(sent) : sent[i].by = "thread"

\* C14 witness: the server's thread has sent a typed byte on the active
\* Session's connection while the loop was handling a wake-up
C14_Witness ==
    /\ role = "server"
    /\ ThreadStrategy
    /\ pc = "loop"
    /\ ready # {}
    /\ Len(sent) >= 1
    /\ sent[Len(sent)].by = "thread"
    /\ sent[Len(sent)].ok
    /\ sent[Len(sent)].conn = session

\* C15: in line mode the server displays only complete linefeed-terminated
\* frames of what it received: the displayed bytes are the received bytes up
\* to and including the last linefeed, the bytes after it are not displayed.
C15_ServerLineModeDisplaysFrames ==
    (role = "server" /\ mode = "line") => PeerShown = FedThroughLastLF

\* C16: on the server with the thread strategy, a send the thread is about to
\* make, or has just made, is on the connection that is the active Session
\* at that moment, a connection the loop has not closed.
C16_ThreadSendsOnActiveSession ==
    (role = "server" /\ ThreadStrategy /\ pc = "loop") =>
        /\ tpc = "send" => (tsock = session /\ tsock \in sockOpen)
        /\ last \in {"thread_send", "thread_send_failed"} =>
               /\ sent[Len(sent)].conn = session
               /\ sent[Len(sent)].conn \in sockOpen

\* C17: while the server's loop runs, between any two handlers of a wake-up,
\* the client sockets in the selector's map are exactly the socket named by
\* the session reference (none when the reference is empty), hence at most
\* one; every client key still to be dispatched is that socket's, so the
\* reference is not empty when it is dispatched; and no run ends on the
\* failed assertion.
C17_ClientKeyIffReference ==
    role = "server" =>
        /\ why # "assert"
        /\ pc = "loop" =>
              /\ ClientKeys = IF session = 0 THEN {}
                              ELSE {Key("client", session)}
              /\ Cardinality(ClientKeys) <= 1
              /\ \A k \in ready : k.data = "client" =>
                     (session # 0 /\ k = Key("client", session))

\* C17 witness: in one wake-up the accept key was handled first, rejecting a
\* second connection, and the Session's client key is still to be dispatched
C17_Witness ==
    /\ role = "server"
    /\ pc = "loop"
    /\ last = "busy"
    /\ session # 0
    /\ Key("client", session) \in ready

\* C18: a step of the server that takes an inbound connection while a Session
\* is active leaves that Session as it was, whatever the busy write does: the
\* reference names the same connection, which is still open and registered,
\* the listening socket is still open and registered, and the loop runs on.
C18_BusyLeavesSessionUnchanged ==
    [][(role = "server" /\ session # 0 /\ nextConn' # nextConn) =>
          /\ session' = session
          /\ session \in sockOpen'
          /\ Key("client", session) \in registered'
          /\ AcceptKey \in registered'
          /\ listenOpen'
          /\ pc' = "loop"]_vars

\* C19: after every return of feed the buffer holds no linefeed, and every
\* frame emitted so far contains exactly one linefeed, its last element.
C19_NoLFInBufferOneLFPerFrame ==
    /\ \A i \in 1..Len(recv_buf) : recv_buf[i] # LF
    /\ \A j \in 1..Len(frames) :
          /\ Len(frames[j]) >= 1
          /\ frames[j][Len(frames[j])] = LF
          /\ \A i \in 1..(Len(frames[j]) - 1) : frames[j][i] # LF

\* C19 witness: the bytes "a", LF, LF, "a" were fed: two frames were
\* returned, the second the bare linefeed, and the last byte was kept
C19_Witness ==
    /\ pc = "feed"
    /\ last = "feed"
    /\ received = <<97, LF, LF, 97>>
    /\ frames = <<(<<97, LF>>), (<<LF>>)>>
    /\ recv_buf = <<97>>

====
